---- MODULE Spec2Model ----
(***************************************************************************)
(* Verification model of dwi_ml's trilinear volume interpolation           *)
(* (dwi_ml/data/processing/volume/interpolation.py), specification Spec,   *)
(* and of its tracker (dwi_ml/tracking/tracker.py), specification          *)
(* SpecTrack, in the second half of the module.                            *)
(*                                                                         *)
(* Numbers.  A coordinate component is the integer numerator of a fraction *)
(* with denominator Den (coordinate 1.5 is 3 when Den = 2).  Volume values *)
(* are integers.  Every interpolated value, weight and monomial is the     *)
(* integer numerator of a fraction with denominator Scale = Den^3, so all  *)
(* the arithmetic of the two functions is exact (for Den = 2 the float32   *)
(* arithmetic of the code is exact on these inputs as well).  Rounding of  *)
(* floating point numbers is not modelled.                                 *)
(***************************************************************************)
EXTENDS Integers, Sequences, FiniteSets, TLC

VARIABLES
    pc,       \* "start": inputs built, nothing called; "torch" / "numpy": which function has returned or raised
    volume,   \* the volume argument: [rank, shape, data]
    coords,   \* the coords argument: a sequence of N rows <<x, y, z>>
    vdev,     \* volume.device
    cdev,     \* coords.device
    mode,     \* the mode argument of interpolate_volume_at_coordinates ("none" until it is called)
    reads,    \* the rows of indices used to read the volume, in order
    ret,      \* the outcome of the call: [kind, value]
    tpc,      \* where the process that owns the DWIMLTracker is ("idle": no tracker is being built)
    ctor,     \* the arguments of DWIMLTracker(...) and what its collaborators hold
    tracker,  \* the attributes of the constructed tracker (self), or NoTracker
    frame,    \* the local variables of the simultaneous tracking path
    calls,    \* the calls made on the propagator and on multiprocessing, in order
    data,     \* per process, the state of the propagator's data: "loaded" or "dropped"
    wpc,      \* per worker process of the pool, where it is
    outcome   \* how the constructor or track() ended: [kind, value]

ivars == <<pc, volume, coords, vdev, cdev, mode, reads, ret>>
tvars == <<tpc, ctor, tracker, frame, calls, data, wpc, outcome>>
vars == <<pc, volume, coords, vdev, cdev, mode, reads, ret,
          tpc, ctor, tracker, frame, calls, data, wpc, outcome>>

-----------------------------------------------------------------------------
(* Bounds of the model.                                                    *)

MaxDim == 3      \* length of the longest axis of the swept volumes
Den == 2         \* coordinates are multiples of 1/Den
MaxChan == 2     \* largest number of channels of a rank-4 volume
MaxVal == 2      \* the value of the constant volumes
MaxN == 2        \* largest number of coordinates in a batch

Scale == Den * Den * Den

Min(a, b) == IF a <= b THEN a ELSE b
Max(a, b) == IF a >= b THEN a ELSE b

RECURSIVE SumTo(_, _)
SumTo(f, n) == IF n = 0 THEN 0 ELSE f[n] + SumTo(f, n - 1)

-----------------------------------------------------------------------------
(* Module-level tables.                                                    *)

\* B1 with the sign of one coefficient of the dx*dy*dz row flipped
B1WrongSign ==
    << << 1,  0,  0,  0,  0,  0,  0,  0>>,
       <<-1,  0,  0,  0,  1,  0,  0,  0>>,
       <<-1,  0,  1,  0,  0,  0,  0,  0>>,
       <<-1,  1,  0,  0,  0,  0,  0,  0>>,
       << 1,  0, -1,  0, -1,  0,  1,  0>>,
       << 1, -1, -1,  1,  0,  0,  0,  0>>,
       << 1, -1,  0,  0, -1,  1,  0,  0>>,
       <<-1,  1,  1, -1,  1, -1,  1,  1>> >>

B1 ==
    << << 1,  0,  0,  0,  0,  0,  0,  0>>,
       <<-1,  0,  0,  0,  1,  0,  0,  0>>,
       <<-1,  0,  1,  0,  0,  0,  0,  0>>,
       <<-1,  1,  0,  0,  0,  0,  0,  0>>,
       << 1,  0, -1,  0, -1,  0,  1,  0>>,
       << 1, -1, -1,  1,  0,  0,  0,  0>>,
       << 1, -1,  0,  0, -1,  1,  0,  0>>,
       <<-1,  1,  1, -1,  1, -1, -1,  1>> >>

\* The corner table listed from p111 down to p000
idx_boxReversed ==
    << <<1, 1, 1>>,
       <<1, 1, 0>>,
       <<1, 0, 1>>,
       <<1, 0, 0>>,
       <<0, 1, 1>>,
       <<0, 1, 0>>,
       <<0, 0, 1>>,
       <<0, 0, 0>> >>

idx_box ==
    << <<0, 0, 0>>,
       <<0, 0, 1>>,
       <<0, 1, 0>>,
       <<0, 1, 1>>,
       <<1, 0, 0>>,
       <<1, 0, 1>>,
       <<1, 1, 0>>,
       <<1, 1, 1>> >>

-----------------------------------------------------------------------------
(* torch_trilinear_interpolation, step by step.                            *)

\* The device assertion left out
SameDeviceUnchecked(vd, cd) == TRUE

\* assert volume.device == coords.device
SameDevice(vd, cd) == vd = cd

\* if volume.dim() <= 2 or volume.dim() >= 5: raise ValueError
TorchRankRejected(rank) == rank <= 2 \/ rank >= 5

\* torch.floor of a coordinate component, as an integer index
Floor(c) == c \div Den

\* torch.floor(coords[:, None, :] + idx_box_torch).reshape((-1, 3)).long():
\* N*8 rows; row (n-1)*8 + k is the corner k of coordinate n.
idx_box_unclipped(cs) ==
    [r \in 1..(Len(cs) * 8) |->
        LET n == ((r - 1) \div 8) + 1
            k == ((r - 1) % 8) + 1
        IN  [a \in 1..3 |-> Floor(cs[n][a] + idx_box[k][a] * Den)]]

\* lower = [0, 0, 0]
lower == <<0, 0, 0>>

\* The upper bound taken as the shape itself
upper_is_shape(shape) == [a \in 1..3 |-> shape[a]]

\* upper = volume.shape[:3] - 1
upper(shape) == [a \in 1..3 |-> shape[a] - 1]

\* The indices clipped against the upper bound only
idx_box_clipped_above(unclipped, lo, up) ==
    [r \in 1..Len(unclipped) |-> [a \in 1..3 |-> Min(unclipped[r][a], up[a])]]

\* torch.min(torch.max(idx_box_unclipped, lower), upper), broadcast over the rows
idx_box_clipped(unclipped, lo, up) ==
    [r \in 1..Len(unclipped) |->
        [a \in 1..3 |-> Min(Max(unclipped[r][a], lo[a]), up[a])]]

\* The offsets taken from the coordinate rounded toward zero
FracPartTruncated(cs) ==
    [n \in 1..Len(cs) |->
        [a \in 1..3 |->
            cs[n][a] - Den * (IF cs[n][a] >= 0 THEN cs[n][a] \div Den
                              ELSE -((-cs[n][a]) \div Den))]]

\* d = coords - torch.floor(coords): numerators over Den
FracPart(cs) ==
    [n \in 1..Len(cs) |-> [a \in 1..3 |-> cs[n][a] - Den * Floor(cs[n][a])]]

\* The monomials dy*dz and dx*dz stacked in the other order
Q1Swapped(d) ==
    LET N == Len(d)
    IN  << [n \in 1..N |-> Scale],
           [n \in 1..N |-> d[n][1] * Den * Den],
           [n \in 1..N |-> d[n][2] * Den * Den],
           [n \in 1..N |-> d[n][3] * Den * Den],
           [n \in 1..N |-> d[n][1] * d[n][2] * Den],
           [n \in 1..N |-> d[n][1] * d[n][3] * Den],
           [n \in 1..N |-> d[n][2] * d[n][3] * Den],
           [n \in 1..N |-> d[n][1] * d[n][2] * d[n][3]] >>

\* Q1 = torch.stack([1, dx, dy, dz, dx*dy, dy*dz, dx*dz, dx*dy*dz], dim=0):
\* 8 rows of N entries, numerators over Scale.
Q1(d) ==
    LET dx(n) == d[n][1]
        dy(n) == d[n][2]
        dz(n) == d[n][3]
        N == Len(d)
    IN  << [n \in 1..N |-> Scale],
           [n \in 1..N |-> dx(n) * Den * Den],
           [n \in 1..N |-> dy(n) * Den * Den],
           [n \in 1..N |-> dz(n) * Den * Den],
           [n \in 1..N |-> dx(n) * dy(n) * Den],
           [n \in 1..N |-> dy(n) * dz(n) * Den],
           [n \in 1..N |-> dx(n) * dz(n) * Den],
           [n \in 1..N |-> dx(n) * dy(n) * dz(n)] >>

\* torch.mm(B1_torch, Q1): the matrix not transposed
CornerWeightsNoTranspose(q, N) ==
    [k \in 1..8 |-> [n \in 1..N |-> SumTo([j \in 1..8 |-> B1[k][j] * q[j][n]], 8)]]

\* torch.mm(B1_torch.t(), Q1): 8 rows (corners) of N entries
CornerWeights(q, N) ==
    [k \in 1..8 |-> [n \in 1..N |-> SumTo([j \in 1..8 |-> B1[j][k] * q[j][n]], 8)]]

\* Indexing a tensor axis of length len: an index outside -len..len-1 raises
\* IndexError, a negative one counts from the end.
IndexOutOfRange(idx, shape) ==
    \E r \in 1..Len(idx) : \E a \in 1..3 : idx[r][a] < -shape[a] \/ idx[r][a] >= shape[a]

WrapIndex(i, len) == IF i < 0 THEN i + len ELSE i

\* volume[idx[:, 0], idx[:, 1], idx[:, 2]] of a rank-3 volume: one value per row
Gather3(vol, idx) ==
    [r \in 1..Len(idx) |->
        vol.data[<<WrapIndex(idx[r][1], vol.shape[1]), WrapIndex(idx[r][2], vol.shape[2]),
                   WrapIndex(idx[r][3], vol.shape[3])>>]]

\* volume[idx[:, 0], idx[:, 1], idx[:, 2], :] of a rank-4 volume: one channel
\* vector per row
Gather4(vol, idx) ==
    [r \in 1..Len(idx) |->
        [c \in 1..vol.shape[4] |->
            vol.data[<<WrapIndex(idx[r][1], vol.shape[1]), WrapIndex(idx[r][2], vol.shape[2]),
                       WrapIndex(idx[r][3], vol.shape[3]), c - 1>>]]]

\* p.reshape((coords.shape[0], -1)): torch cannot infer -1 for a tensor of 0
\* elements when the other dimension is 0.
ReshapeInferFails(nElements, N) == nElements = 0 /\ N = 0

\* p.reshape((N, -1)) of a flat tensor of N*8 elements: N rows of 8
ReshapeRows(flat, N) ==
    [n \in 1..N |-> [k \in 1..(Len(flat) \div N) |-> flat[(n - 1) * (Len(flat) \div N) + k]]]

\* .t() of a matrix of N rows and K columns
Transpose(m, N, K) == [k \in 1..K |-> [n \in 1..N |-> m[n][k]]]

\* p.reshape((coords.shape[0], 8, volume.shape[-1])) of N*8 channel vectors
ReshapeBoxes(rows, N) ==
    [n \in 1..N |-> [k \in 1..8 |-> rows[(n - 1) * 8 + k]]]

\* torch.sum(p * torch.mm(B1_torch.t(), Q1), dim=0), p of 8 rows and N columns
Output3(p, w, N) ==
    [n \in 1..N |-> SumTo([k \in 1..8 |-> p[k][n] * w[k][n]], 8)]

\* torch.sum(p * torch.mm(B1_torch.t(), Q1).t()[:, :, None], dim=1), p of shape (N, 8, C)
Output4(p, w, N, C) ==
    LET wt == Transpose(w, 8, N)
    IN  [n \in 1..N |-> [c \in 1..C |-> SumTo([k \in 1..8 |-> p[n][k][c] * wt[n][k]], 8)]]

\* The outcome of a call: what it raised or returned, and the rows of indices
\* it read the volume at before that
Raised(err, rd) == [kind |-> err, value |-> <<>>, reads |-> rd]
Returned(val, rd) == [kind |-> "value", value |-> val, reads |-> rd]

torch_trilinear_interpolation(vol, cs, vd, cd) ==
    IF ~SameDevice(vd, cd) THEN Raised("AssertionError", <<>>)
    ELSE IF TorchRankRejected(vol.rank) THEN Raised("ValueError", <<>>)
    ELSE
        LET N == Len(cs)
            idx == idx_box_clipped(idx_box_unclipped(cs), lower, upper(vol.shape))
            w == CornerWeights(Q1(FracPart(cs)), N)
        IN  IF vol.rank = 3
            THEN IF IndexOutOfRange(idx, vol.shape)
                 THEN Raised("IndexError", idx)
                 ELSE LET flat == Gather3(vol, idx)
                      IN  IF ReshapeInferFails(Len(flat), N)
                          THEN Raised("RuntimeError", idx)
                          ELSE Returned(Output3(Transpose(ReshapeRows(flat, N), N, 8), w, N),
                                        idx)
            ELSE IF vol.rank = 4
            THEN IF IndexOutOfRange(idx, vol.shape)
                 THEN Raised("IndexError", idx)
                 ELSE Returned(Output4(ReshapeBoxes(Gather4(vol, idx), N),
                                       w, N, vol.shape[4]),
                               idx)
            ELSE Raised("ValueError", idx)

-----------------------------------------------------------------------------
(* interpolate_volume_at_coordinates and scipy.ndimage.map_coordinates     *)
(* (order=1), as the function uses it.                                     *)

\* The rank test with both comparisons off by one
NumpyRankRejectedLoose(rank) == rank < 2 \/ rank > 5

\* if volume.ndim <= 2 or volume.ndim >= 5: raise ValueError
NumpyRankRejected(rank) == rank <= 2 \/ rank >= 5

\* coords.T: 3 rows (axes) of N entries
CoordsT(cs) == [a \in 1..3 |-> [n \in 1..Len(cs) |-> cs[n][a]]]

\* volume[..., i] of a rank-4 volume, i counted from 0
ChannelSlice(vol, i) ==
    [rank  |-> 3,
     shape |-> <<vol.shape[1], vol.shape[2], vol.shape[3]>>,
     data  |-> [t \in {<<u[1], u[2], u[3]>> : u \in DOMAIN vol.data} |->
                   vol.data[<<t[1], t[2], t[3], i>>]]]

\* map_coordinates' boundary handling of one coordinate component on an axis
\* of length len: "nearest" moves it to the nearest edge; "constant" marks a
\* component beyond the edges (-1: the sample is the fill value 0).
MapCoordinate(c, len, m) ==
    IF m = "nearest"
    THEN Min(Max(c, 0), (len - 1) * Den)
    ELSE IF c < 0 \/ c > (len - 1) * Den THEN -1 ELSE c

\* First-order (linear) spline sample of a rank-3 array at one mapped
\* coordinate: the two neighbours of each axis, weighted by 1 - d and d.  A
\* neighbour beyond the last element (weight 0) is read at the edge.
LinearSample(vol, c) ==
    LET f == [a \in 1..3 |-> c[a] \div Den]
        d == [a \in 1..3 |-> c[a] - Den * f[a]]
        wt(a, bit) == IF bit = 0 THEN Den - d[a] ELSE d[a]
        at(a, bit) == Min(f[a] + bit, vol.shape[a] - 1)
    IN  SumTo([k \in 1..8 |->
                  wt(1, idx_box[k][1]) * wt(2, idx_box[k][2]) * wt(3, idx_box[k][3])
                  * vol.data[<<at(1, idx_box[k][1]), at(2, idx_box[k][2]),
                               at(3, idx_box[k][3])>>]], 8)

\* map_coordinates(vol, coordsT, order=1, mode=m): one value per column of coordsT
map_coordinates(vol, ct, m) ==
    [n \in 1..Len(ct[1]) |->
        LET c == [a \in 1..3 |-> MapCoordinate(ct[a][n], vol.shape[a], m)]
        IN  IF \E a \in 1..3 : c[a] = -1 THEN 0 ELSE LinearSample(vol, c)]

\* np.ascontiguousarray(np.array(values_4d).T): C rows of N entries to N rows of C
StackChannels(values_4d, N, C) == [n \in 1..N |-> [c \in 1..C |-> values_4d[c][n]]]

\* A rank the two branches do not handle falls off the end: the call returns None
ReturnedNone == [kind |-> "None", value |-> <<>>, reads |-> <<>>]

interpolate_volume_at_coordinates(vol, cs, m) ==
    IF NumpyRankRejected(vol.rank) THEN Raised("ValueError", <<>>)
    ELSE IF vol.rank = 3 THEN Returned(map_coordinates(vol, CoordsT(cs), m), <<>>)
    ELSE IF vol.rank = 4
    THEN Returned(StackChannels(
             [i \in 1..vol.shape[4] |-> map_coordinates(ChannelSlice(vol, i - 1), CoordsT(cs), m)],
             Len(cs), vol.shape[4]), <<>>)
    ELSE ReturnedNone

-----------------------------------------------------------------------------
(* The inputs of the model.                                                *)

Devices == {"cpu", "cuda"}

\* The boundary modes that are modelled ("reflect" and "wrap" are not)
Modes == {"nearest", "constant"}

RECURSIVE MaxOf(_, _)
MaxOf(shape, a) == IF a = 0 THEN 0 ELSE Max(shape[a], MaxOf(shape, a - 1))

\* The index tuples of an array of the given shape (indices from 0)
Indices(shape) ==
    {t \in [1..Len(shape) -> 0..(MaxOf(shape, Len(shape)) - 1)] :
        \A a \in 1..Len(shape) : t[a] < shape[a]}

\* Position of an index tuple in the array's memory (row-major order)
RECURSIVE Offset(_, _, _)
Offset(t, shape, a) == IF a = 0 THEN 0 ELSE Offset(t, shape, a - 1) * shape[a] + t[a]

ConstVolume(rank, shape, v) ==
    [rank |-> rank, shape |-> shape, data |-> [t \in Indices(shape) |-> v]]

\* v[x, y, z] = x
RampVolume(shape) ==
    [rank |-> 3, shape |-> shape, data |-> [t \in Indices(shape) |-> t[1]]]

\* Every element differs from every other, and the field is not multilinear
SquareVolume(rank, shape) ==
    [rank |-> rank, shape |-> shape,
     data |-> [t \in Indices(shape) |->
                  (Offset(t, shape, Len(shape)) + 1) * (Offset(t, shape, Len(shape)) + 1)]]

\* A volume whose three axes differ in length, one of them a single voxel
Slab == <<1, 2, MaxDim>>

\* The 4x4x4 volume v[x, y, z] = x
ExampleVolume == RampVolume(<<4, 4, 4>>)

\* Volumes interpolated at every single coordinate around them
SweepVolumes ==
    {ConstVolume(3, Slab, MaxVal), SquareVolume(3, Slab),
     ConstVolume(4, Slab \o <<MaxChan>>, MaxVal), SquareVolume(4, Slab \o <<MaxChan>>)}

\* Volumes of every rank, interpolated at batches and across devices
BatchVolumes ==
    {SquareVolume(2, <<2, 3>>), SquareVolume(3, Slab), SquareVolume(5, <<1, 2, 3, 1, 2>>)}
    \cup {SquareVolume(4, Slab \o <<c>>) : c \in 1..MaxChan}

\* Component values from 1.5 voxels below the first voxel to half a voxel
\* above the last one (numerators over Den)
AxisCoords(len) == (-Den - 1)..(len * Den + 1)

SweepCoords(shape) ==
    {<<x, y, z>> : x \in AxisCoords(shape[1]), y \in AxisCoords(shape[2]),
                   z \in AxisCoords(shape[3])}

\* The coordinates strictly inside a volume
InsideCoords(shape) ==
    {<<x, y, z>> : x \in 0..(shape[1] * Den - 1), y \in 0..(shape[2] * Den - 1),
                   z \in 0..(shape[3] * Den - 1)}

\* Positions along a line that enters and leaves a volume of shape Slab
BatchCoords == {<<t, t + 1, t + 2>> : t \in (-Den)..Den}

Batches == UNION {[1..n -> BatchCoords] : n \in 0..MaxN}

-----------------------------------------------------------------------------
(* The state machine: the two tensors and the two arrays exist, then one   *)
(* of the two functions is called on them once.                            *)

NoOutcome == [kind |-> "none", value |-> <<>>]

\* No tracker is built while the interpolation functions are exercised
NoTracker == [built |-> FALSE]
NoFrame == [names |-> {}]
TrackerIdle ==
    /\ tpc = "idle"
    /\ ctor = <<>>
    /\ tracker = NoTracker
    /\ frame = NoFrame
    /\ calls = <<>>
    /\ data = <<>>
    /\ wpc = <<>>
    /\ outcome = NoOutcome

\* The arguments as the caller built them, before any call
Start(v, cs, vd, cd) ==
    /\ volume = v
    /\ coords = cs
    /\ vdev = vd
    /\ cdev = cd
    /\ pc = "start"
    /\ mode = "none"
    /\ reads = <<>>
    /\ ret = NoOutcome
    /\ TrackerIdle

\* One coordinate anywhere around a volume, both tensors on the cpu
InitSweep ==
    \E v \in SweepVolumes : \E c \in SweepCoords(v.shape) : Start(v, <<c>>, "cpu", "cpu")

\* One coordinate anywhere inside the 4x4x4 volume, both tensors on the cpu
InitExample ==
    \E c \in InsideCoords(ExampleVolume.shape) : Start(ExampleVolume, <<c>>, "cpu", "cpu")

\* A batch of 0..MaxN coordinates and a volume of any rank, both on the gpu
InitBatch ==
    \E v \in BatchVolumes, b \in Batches : Start(v, b, "cuda", "cuda")

\* At most one coordinate and a volume of any rank, on any two devices
InitDevices ==
    \E v \in BatchVolumes, b \in {<<>>} \cup {<<c>> : c \in BatchCoords},
       vd \in Devices, cd \in Devices :
        Start(v, b, vd, cd)

Init == InitSweep \/ InitExample \/ InitBatch \/ InitDevices

\* output = torch_trilinear_interpolation(volume, coords)
CallTorch ==
    /\ pc = "start"
    /\ LET r == torch_trilinear_interpolation(volume, coords, vdev, cdev)
       IN  /\ ret' = [kind |-> r.kind, value |-> r.value]
           /\ reads' = r.reads
    /\ pc' = "torch"
    /\ UNCHANGED <<volume, coords, vdev, cdev, mode>>
    /\ UNCHANGED tvars

\* output = interpolate_volume_at_coordinates(volume, coords, mode=m); the
\* reads of map_coordinates are not recorded
CallNumpy ==
    /\ pc = "start"
    /\ \E m \in Modes :
        /\ mode' = m
        /\ LET r == interpolate_volume_at_coordinates(volume, coords, m)
           IN  ret' = [kind |-> r.kind, value |-> r.value]
    /\ pc' = "numpy"
    /\ UNCHANGED <<volume, coords, vdev, cdev, reads>>
    /\ UNCHANGED tvars

Next == CallTorch \/ CallNumpy

Spec == Init /\ [][Next]_vars

-----------------------------------------------------------------------------
(* Vocabulary of the properties.                                           *)

\* torch_trilinear_interpolation was called with tensors on one device, a
\* volume of rank 3 or 4 and at least one coordinate
TorchCalled == pc = "torch"
TorchValid == TorchCalled /\ vdev = cdev /\ volume.rank \in {3, 4} /\ Len(coords) >= 1

\* The value of one element of a volume: channel ch (from 1) of a rank-4
\* volume, the voxel itself for a rank-3 volume
Voxel(vol, x, y, z, ch) ==
    IF vol.rank = 3 THEN vol.data[<<x, y, z>>] ELSE vol.data[<<x, y, z, ch - 1>>]

\* The channels of a result row: 1 for a rank-3 volume
NbChannels(vol) == IF vol.rank = 3 THEN 1 ELSE vol.shape[4]

\* Element (n, ch) of a returned result
ResultAt(val, vol, n, ch) == IF vol.rank = 3 THEN val[n] ELSE val[n][ch]

Clamp(i, lo, hi) == Min(Max(i, lo), hi)

\* The trilinear interpolation of the 8 clamped corner values, as a sum over
\* (i, j, k) in {0,1}^3 with weights w_0 = 1 - d and w_1 = d on each axis
\* (numerator over Scale)
TrilinearOfCorners(vol, c, ch) ==
    LET fl(a) == c[a] \div Den
        d(a) == c[a] - Den * fl(a)
        wgt(a, bit) == IF bit = 0 THEN Den - d(a) ELSE d(a)
        at(a, bit) == Clamp(fl(a) + bit, 0, vol.shape[a] - 1)
        term(i, j, k) ==
            wgt(1, i) * wgt(2, j) * wgt(3, k) * Voxel(vol, at(1, i), at(2, j), at(3, k), ch)
    IN  term(0, 0, 0) + term(0, 0, 1) + term(0, 1, 0) + term(0, 1, 1)
        + term(1, 0, 0) + term(1, 0, 1) + term(1, 1, 0) + term(1, 1, 1)

\* The coordinate (1.5, 2.0, 2.0), which Den must be able to express
ExampleCoords == << <<(3 * Den) \div 2, 2 * Den, 2 * Den>> >>
ExampleStated == Den % 2 = 0

-----------------------------------------------------------------------------
\* C1: on a valid call the primary engine returns, for every coordinate n and
\* every channel, the sum over the 8 corners (i, j, k) of wx_i * wy_j * wz_k
\* times the volume at the clamped corner floor(coord) + (i, j, k); for the
\* 4x4x4 volume v[x, y, z] = x the value at (1.5, 2.0, 2.0) is 1.5.
C1_TrilinearOfClampedCorners ==
    TorchValid =>
        /\ ret.kind = "value"
        /\ \A n \in 1..Len(coords) : \A ch \in 1..NbChannels(volume) :
               ResultAt(ret.value, volume, n, ch) = TrilinearOfCorners(volume, coords[n], ch)
        /\ (ExampleStated /\ volume = ExampleVolume /\ coords = ExampleCoords)
               => 2 * ret.value[1] = 3 * Scale

C1_Witness ==
    /\ TorchValid /\ ExampleStated
    /\ volume = ExampleVolume /\ coords = ExampleCoords
    /\ ret = [kind |-> "value", value |-> <<(3 * Scale) \div 2>>]

\* C2: every corner index the primary engine reads the volume at is within
\* 0..shape[axis]-1 on its own axis, 8 rows are read per coordinate, and a
\* valid call returns a value wherever the coordinates lie.
C2_CornerIndicesWithinBounds ==
    TorchCalled =>
        /\ \A r \in 1..Len(reads) : \A a \in 1..3 :
               0 <= reads[r][a] /\ reads[r][a] <= volume.shape[a] - 1
        /\ TorchValid => (ret.kind = "value" /\ Len(reads) = 8 * Len(coords))

\* A coordinate below 0 on one axis and at or above the shape on another
C2_Witness ==
    /\ TorchValid /\ ret.kind = "value" /\ Len(reads) = 8
    /\ coords[1][1] < -Den
    /\ coords[1][2] >= volume.shape[2] * Den
    /\ volume.shape[1] # volume.shape[3]
    /\ \A r \in 1..8 : reads[r][1] = 0 /\ reads[r][2] = volume.shape[2] - 1

\* The coordinate moved onto the nearest voxel position of the grid, and onto
\* the nearest coordinate of [0, shape), on each axis
ClampToVoxel(c, shape) == [a \in 1..3 |-> Clamp(c[a], 0, (shape[a] - 1) * Den)]
ClampToRange(c, shape) == [a \in 1..3 |-> Clamp(c[a], 0, shape[a] * Den - 1)]
OutOfRange(c, shape) == \E a \in 1..3 : c[a] < 0 \/ c[a] >= shape[a] * Den

\* C3: the primary engine's output at a coordinate outside [0, shape) on any
\* axis or axes equals its output at the clamped coordinate.
C3_ClampingIdempotent ==
    TorchValid =>
        /\ ret.kind = "value"
        /\ \A n \in 1..Len(coords) :
               OutOfRange(coords[n], volume.shape) =>
                   /\ ret.value[n] =
                          torch_trilinear_interpolation(
                              volume, <<ClampToVoxel(coords[n], volume.shape)>>, vdev, cdev).value[1]
                   /\ ret.value[n] =
                          torch_trilinear_interpolation(
                              volume, <<ClampToRange(coords[n], volume.shape)>>, vdev, cdev).value[1]

\* Out of range on two axes (one on each side), fractional on the third, on a
\* volume whose voxels all differ
C3_Witness ==
    /\ TorchValid /\ ret.kind = "value"
    /\ volume = SquareVolume(3, Slab)
    /\ coords[1][1] < 0
    /\ coords[1][2] >= volume.shape[2] * Den
    /\ coords[1][3] > 0 /\ coords[1][3] < Den
    /\ ret.value[1] * 2 = Scale * (volume.data[<<0, 1, 0>>] + volume.data[<<0, 1, 1>>])

IsConstant(vol, v) == \A t \in DOMAIN vol.data : vol.data[t] = v

\* The 8 corner weights of coordinate n, torch.mm(B1.t(), Q1)[:, n]
WeightsOf(cs, n) == [k \in 1..8 |-> CornerWeights(Q1(FracPart(cs)), Len(cs))[k][n]]

\* C4: on a constant-valued volume of rank 3 or 4 the primary engine returns
\* exactly the constant at every coordinate, and the 8 corner weights sum to 1.
C4_ConstantVolume ==
    TorchValid =>
        /\ \A n \in 1..Len(coords) : SumTo(WeightsOf(coords, n), 8) = Scale
        /\ \A v \in {MaxVal} :
               IsConstant(volume, v) =>
                   /\ ret.kind = "value"
                   /\ \A n \in 1..Len(coords) : \A ch \in 1..NbChannels(volume) :
                          ResultAt(ret.value, volume, n, ch) = v * Scale

\* A rank-4 constant volume at a coordinate with three fractional offsets
\* whose upper corners are clamped on one axis
C4_Witness ==
    /\ TorchValid /\ volume.rank = 4 /\ IsConstant(volume, MaxVal)
    /\ \A a \in 1..3 : coords[1][a] % Den # 0
    /\ coords[1][1] > (volume.shape[1] - 1) * Den
    /\ ret.kind = "value"
    /\ \A ch \in 1..volume.shape[4] : ret.value[1][ch] = MaxVal * Scale

OnGridPoint(c, shape) ==
    \A a \in 1..3 : c[a] % Den = 0 /\ 0 <= c[a] /\ c[a] <= (shape[a] - 1) * Den

\* C5: at a coordinate whose three components are integers inside the grid
\* the primary engine returns exactly the value stored at that voxel.
C5_GridPointExact ==
    TorchValid =>
        \A n \in 1..Len(coords) :
            OnGridPoint(coords[n], volume.shape) =>
                /\ ret.kind = "value"
                /\ WeightsOf(coords, n) = <<Scale, 0, 0, 0, 0, 0, 0, 0>>
                /\ \A ch \in 1..NbChannels(volume) :
                       ResultAt(ret.value, volume, n, ch) =
                           Scale * Voxel(volume, coords[n][1] \div Den, coords[n][2] \div Den,
                                         coords[n][3] \div Den, ch)

\* A grid point of the volume whose voxels all differ
C5_Witness ==
    /\ TorchValid /\ volume = SquareVolume(3, Slab)
    /\ coords = << <<0, Den, Den>> >>
    /\ ret = [kind |-> "value", value |-> <<Scale * volume.data[<<0, 1, 1>>]>>]

StrictlyInside(c, shape) == \A a \in 1..3 : 0 <= c[a] /\ c[a] < shape[a] * Den

\* C6: at every coordinate strictly inside the bounds, the last voxel
\* [shape-1, shape) included, the primary engine and the reference engine
\* with mode "nearest" return the same value, for rank 3 and rank 4.
C6_EnginesAgree ==
    TorchValid =>
        LET ref == interpolate_volume_at_coordinates(volume, coords, "nearest")
        IN  /\ ret.kind = "value"
            /\ ref.kind = "value"
            /\ \A n \in 1..Len(coords) :
                   StrictlyInside(coords[n], volume.shape) => ret.value[n] = ref.value[n]

\* A rank-4 volume at a fractional coordinate of the last voxel of an axis
C6_Witness ==
    /\ TorchValid /\ volume = SquareVolume(4, Slab \o <<MaxChan>>)
    /\ StrictlyInside(coords[1], volume.shape)
    /\ coords[1][1] > (volume.shape[1] - 1) * Den
    /\ coords[1][2] % Den # 0 /\ coords[1][2] < (volume.shape[2] - 1) * Den
    /\ ret.kind = "value"
    /\ ret.value = interpolate_volume_at_coordinates(volume, coords, "nearest").value

BadRank(vol) == vol.rank <= 2 \/ vol.rank >= 5
Called == pc \in {"torch", "numpy"}

\* C7 as stated: both functions raise ValueError for a volume of rank <= 2
\* or >= 5 and return no value; ranks 3 and 4 are never rejected.
C7_AsStated ==
    Called =>
        /\ BadRank(volume) => (ret.kind = "ValueError" /\ ret.value = <<>>)
        /\ ~BadRank(volume) => ret.kind # "ValueError"

\* C7 (amended): both functions raise ValueError for a volume of rank <= 2 or
\* >= 5 and return no value, except that the primary engine, called with the
\* volume and the coordinates on different devices, fails its device
\* assertion first whatever the rank; ranks 3 and 4 are never rejected.
C7_RankRejected ==
    Called =>
        /\ (BadRank(volume) /\ (pc = "numpy" \/ vdev = cdev))
               => (ret.kind = "ValueError" /\ ret.value = <<>> /\ reads = <<>>)
        /\ (BadRank(volume) /\ pc = "torch" /\ vdev # cdev)
               => (ret.kind = "AssertionError" /\ ret.value = <<>> /\ reads = <<>>)
        /\ ~BadRank(volume) => ret.kind # "ValueError"

\* The primary engine rejects a rank-5 volume given on the coordinates' device
C7_Witness ==
    /\ pc = "torch" /\ volume.rank = 5 /\ vdev = cdev /\ Len(coords) = 1
    /\ ret = [kind |-> "ValueError", value |-> <<>>]

\* C8: with the volume and the coordinates on different devices the primary
\* engine fails on its assertion before it reads the volume and returns
\* nothing, and no call changes the device of either tensor.
C8_DeviceMismatchFatal ==
    /\ []((TorchCalled /\ vdev # cdev)
             => (ret.kind = "AssertionError" /\ ret.value = <<>> /\ reads = <<>>))
    /\ [][vdev' = vdev /\ cdev' = cdev]_vars

\* A rank-4 volume on the gpu and one coordinate on the cpu
C8_Witness ==
    /\ TorchCalled /\ vdev = "cuda" /\ cdev = "cpu"
    /\ volume.rank = 4 /\ Len(coords) = 1
    /\ ret = [kind |-> "AssertionError", value |-> <<>>]
    /\ reads = <<>>

\* Column i (from 1) of a rank-4 result equals the rank-3 result of channel i
ColumnEquals(val, i, single) ==
    /\ single.kind = "value"
    /\ Len(single.value) = Len(val)
    /\ \A n \in 1..Len(val) : val[n][i] = single.value[n]

ChannelWise ==
    /\ (pc = "torch" /\ vdev = cdev /\ volume.rank = 4) =>
           /\ ret.kind = "value"
           /\ Len(ret.value) = Len(coords)
           /\ \A i \in 1..volume.shape[4] :
                  ColumnEquals(ret.value, i,
                      torch_trilinear_interpolation(ChannelSlice(volume, i - 1), coords, vdev, cdev))
    /\ (pc = "numpy" /\ volume.rank = 4) =>
           /\ ret.kind = "value"
           /\ Len(ret.value) = Len(coords)
           /\ \A i \in 1..volume.shape[4] :
                  ColumnEquals(ret.value, i,
                      interpolate_volume_at_coordinates(ChannelSlice(volume, i - 1), coords, mode))

\* C9: for a rank-4 volume and a fixed coordinate batch, column i of the
\* multi-channel result equals the rank-3 interpolation of channel i alone,
\* for the primary engine and for the reference engine.
C9_ChannelWise == ChannelWise

\* C9 on the batches that hold at least one coordinate
C9_ChannelWiseNonEmpty == Len(coords) >= 1 => ChannelWise

BatchIndependent ==
    (pc = "torch" /\ vdev = cdev /\ volume.rank \in {3, 4}) =>
        /\ ret.kind = "value"
        /\ Len(ret.value) = Len(coords)
        /\ \A n \in 1..Len(coords) :
               /\ volume.rank = 4 => Len(ret.value[n]) = volume.shape[4]
               /\ ret.value[n] =
                      torch_trilinear_interpolation(volume, <<coords[n]>>, vdev, cdev).value[1]

\* C10: for N coordinates the primary engine returns N results in input
\* order, (N,) for rank 3 and (N, C) for rank 4, and result n is the result
\* of interpolating coordinate n alone.
C10_BatchIndependent == BatchIndependent

\* C10 on the batches that hold at least one coordinate
C10_BatchIndependentNonEmpty == Len(coords) >= 1 => BatchIndependent

-----------------------------------------------------------------------------
(* DWIMLTracker (src/dwi_ml/tracking/tracker.py).                          *)
(*                                                                         *)
(* One process builds a tracker and calls track() on it once.  Positions   *)
(* are the integers 0..MaxPos along one axis, the tracking mask is the set *)
(* of positions it holds, and a streamline is a sequence of positions.     *)
(* The propagator, the seed generator and the mask are collaborators that  *)
(* are handed to the tracker: a call on the propagator is recorded in      *)
(* calls and what it returns is any value of the right shape.  Processes   *)
(* are numbered: 0 is the process that built the tracker, 1..nbr_processes *)
(* are the workers of the pool.                                            *)

MaxProc == 3      \* nbr_processes ranges over 1..MaxProc
MaxSeeds == 2     \* a batch holds 0..MaxSeeds seeds
MaxPos == 2       \* positions are 0..MaxPos
MaxPts == 2       \* max_nbr_pts ranges over 0..MaxPts

Positions == 0..MaxPos

\* One call as the propagator or multiprocessing sees it: who calls, what,
\* and with which argument
Call(proc, op, arg) == [proc |-> proc, op |-> op, arg |-> arg]

RaisedBy(err) == [kind |-> err, value |-> <<>>]
TrackReturned(val) == [kind |-> "returned", value |-> val]

\* if nbr_processes > 2 and not propagator.dataset.is_lazy
LazyCheckNegationLost(nbr_processes, is_lazy) == nbr_processes > 2 /\ is_lazy
LazyCheck(nbr_processes, is_lazy) == nbr_processes > 2 /\ ~is_lazy

\* The attributes of a tracker once __init__ has run to its end; the
\* first six are stored by the constructor of the superclass
Attributes(a) ==
    [built |-> TRUE,
     nbr_processes |-> a.nbr_processes,
     min_nbr_pts |-> a.min_nbr_pts,
     max_nbr_pts |-> a.max_nbr_pts,
     max_invalid_dirs |-> a.max_invalid_dirs,
     track_forward_only |-> a.track_forward_only,
     mask |-> a.mask,
     simultanenous_tracking |-> a.simultanenous_tracking,
     device |-> a.device,
     printing_frequency |-> 5]

\* tracker = DWIMLTracker(...): a constructor that raises leaves no object
DWIMLTracker_init ==
    /\ tpc = "new"
    /\ IF LazyCheck(ctor.nbr_processes, ctor.is_lazy)
       THEN /\ outcome' = RaisedBy("ValueError")
            /\ tpc' = "init_raised"
            /\ UNCHANGED <<tracker, calls>>
       ELSE /\ tracker' = Attributes(ctor)
            /\ calls' = Append(calls, Call(0, "move_to", <<>>))
            /\ tpc' = "ready"
            /\ UNCHANGED outcome
    /\ UNCHANGED <<ivars, ctor, frame, data, wpc>>

\* tracker.track(): the simultaneous path, or the track() of the superclass,
\* which tracks in this process or in a pool when nbr_processes is 2 or more
track ==
    /\ tpc = "ready"
    /\ tpc' = IF tracker.simultanenous_tracking THEN "simultanenous_tracking_on_gpu"
              ELSE IF tracker.nbr_processes < 2 THEN "_get_streamlines"
              ELSE "_prepare_multiprocessing_pool"
    /\ UNCHANGED <<ivars, ctor, tracker, frame, calls, data, wpc, outcome>>

\* What one call does to the copies of the propagator's data: reset_data
\* drops or reloads the caller's copy, and every worker of a new pool starts
\* with a copy of what the parent holds at that moment
DataAfter(d, c) ==
    LET to(v) == IF c.proc = 0 THEN [d EXCEPT !.main = v]
                 ELSE [d EXCEPT !.worker[c.proc] = v]
    IN  IF c.op = "reset_data(reload_data=False)" THEN to("dropped")
        ELSE IF c.op = "reset_data(reload_data=True)" THEN to("loaded")
        ELSE IF c.op = "Pool" THEN [d EXCEPT !.worker = [w \in 1..c.arg[1] |-> d.main]]
        ELSE d

RECURSIVE DataAfterAll(_, _)
DataAfterAll(d, cs) ==
    IF cs = <<>> THEN d ELSE DataAfterAll(DataAfter(d, Head(cs)), Tail(cs))

\* The two calls of _prepare_multiprocessing_pool, in order
PoolPreparationForkFirst(n) ==
    <<Call(0, "Pool", <<n>>), Call(0, "reset_data(reload_data=False)", <<>>)>>
PoolPreparation(n) ==
    <<Call(0, "reset_data(reload_data=False)", <<>>), Call(0, "Pool", <<n>>)>>

\* pool = self._prepare_multiprocessing_pool(tmpdir), in the track() of the
\* superclass
_prepare_multiprocessing_pool ==
    /\ tpc = "_prepare_multiprocessing_pool"
    /\ LET steps == PoolPreparation(tracker.nbr_processes)
       IN  /\ calls' = calls \o steps
           /\ data' = DataAfterAll(data, steps)
    /\ wpc' = [w \in 1..tracker.nbr_processes |-> "forked"]
    /\ tpc' = "map"
    /\ UNCHANGED <<ivars, ctor, tracker, frame, outcome>>

\* self._reload_data_for_new_process(init_args): the first statement of
\* _get_streamlines_sub, which the pool runs once in each worker
_reload_data_for_new_process(w) ==
    /\ tpc = "map"
    /\ wpc[w] = "forked"
    /\ LET c == Call(w, "reset_data(reload_data=True)", <<>>)
       IN  /\ calls' = Append(calls, c)
           /\ data' = DataAfter(data, c)
    /\ wpc' = [wpc EXCEPT ![w] = "reloaded"]
    /\ UNCHANGED <<ivars, tpc, ctor, tracker, frame, outcome>>

\* self._get_streamlines(chunk_id) of the superclass, in worker w: the
\* worker propagates the streamlines of its chunk, one seed at a time
_get_streamlines_sub(w) ==
    /\ tpc = "map"
    /\ wpc[w] = "reloaded"
    /\ calls' = Append(calls, Call(w, "propagate", <<>>))
    /\ wpc' = [wpc EXCEPT ![w] = "done"]
    /\ UNCHANGED <<ivars, tpc, ctor, tracker, frame, data, outcome>>

\* pool.map returns once every worker has returned its chunk, and track()
\* returns the chunks
pool_map_returns ==
    /\ tpc = "map"
    /\ \A w \in DOMAIN wpc : wpc[w] = "done"
    /\ outcome' = TrackReturned([w \in DOMAIN wpc |-> w])
    /\ tpc' = "returned"
    /\ UNCHANGED <<ivars, ctor, tracker, frame, calls, data, wpc>>

\* lines, seeds = self._get_streamlines(chunk_id) in the process that owns
\* the tracker, when nbr_processes is below 2
_get_streamlines ==
    /\ tpc = "_get_streamlines"
    /\ calls' = Append(calls, Call(0, "propagate", <<>>))
    /\ outcome' = TrackReturned(<<1>>)
    /\ tpc' = "returned"
    /\ UNCHANGED <<ivars, ctor, tracker, frame, data, wpc>>

-----------------------------------------------------------------------------
(* The simultaneous path: simultanenous_tracking_on_gpu,                   *)
(* _get_lines_both_directions and _propagate_lines.  frame.names holds the *)
(* local names that are bound at the current statement; reading a name     *)
(* that is bound neither there nor in the module raises NameError, which   *)
(* nothing on this path catches, so it ends track().                       *)

\* The names bound at module level in tracker.py
ModuleNames ==
    {"logging", "multiprocessing", "os", "np", "DataVolume", "ScilpyTracker",
     "DWIMLPropagator", "DWIMLSeedGenerator", "logger", "DWIMLTracker"}

\* Whether reading a name succeeds where the given local names are bound
Bound(name, names) == name \in names \cup ModuleNames

Seq1(n, v) == [i \in 1..n |-> v]

\* What finalize_streamline may answer when no point is to be added
None == -1

\* seeds = self.seed_generator.get_next_n_pos(...), then the call of
\* self._get_lines_both_directions(seeds)
simultanenous_tracking_on_gpu ==
    /\ tpc = "simultanenous_tracking_on_gpu"
    /\ frame' = [names |-> {"self", "n_seeds"}, n_seeds |-> ctor.seeds]
    /\ tpc' = "_get_lines_both_directions"
    /\ UNCHANGED <<ivars, ctor, tracker, calls, data, wpc, outcome>>

\* [np.asarray(seeding_pos)]: the line a seed starts as
SeedLineTwice(seeding_pos) == <<seeding_pos, seeding_pos>>
SeedLine(seeding_pos) == <<seeding_pos>>

\* The first statements of _get_lines_both_directions, up to the call of
\* self._propagate_lines(lines, tracking_info) and the statements of
\* _propagate_lines that precede its loop
_get_lines_both_directions ==
    /\ tpc = "_get_lines_both_directions"
    /\ LET n == Len(frame.n_seeds)
       IN  frame' = [names |-> {"self", "lines", "tracking_info",
                                "invalid_direction_counts",
                                "propagation_can_continue", "final_lines",
                                "nb_points"},
                     n_seeds |-> frame.n_seeds,
                     lines |-> [i \in 1..n |-> SeedLine(frame.n_seeds[i])],
                     tracking_info |-> 0,
                     invalid_direction_counts |-> Seq1(n, 0),
                     propagation_can_continue |-> Seq1(n, 1),
                     final_lines |-> <<>>,
                     nb_points |-> 0]
    /\ calls' = Append(calls, Call(0, "prepare_forward", frame.n_seeds))
    /\ tpc' = "while"
    /\ UNCHANGED <<ivars, ctor, tracker, data, wpc, outcome>>

\* while nb_points < self.max_nbr_pts and np.any(propagation_can_continue)
LoopContinues(f, max_nbr_pts) ==
    /\ f.nb_points < max_nbr_pts
    /\ \E i \in DOMAIN f.propagation_can_continue : f.propagation_can_continue[i] # 0

_propagate_lines_while ==
    /\ tpc = "while"
    /\ tpc' = IF LoopContinues(frame, tracker.max_nbr_pts) THEN "body" ELSE "after"
    /\ UNCHANGED <<ivars, ctor, tracker, frame, calls, data, wpc, outcome>>

\* self.propagator.propagate(lines[-1], tracking_info): the calls of one
\* pass through the body, each with the positions and the tracking_info it
\* is handed
PropagateCall(positions, info) ==
    [proc |-> 0, op |-> "propagate", arg |-> positions, info |-> info]
PropagateCallsPerLine(f) ==
    [i \in 1..Len(f.lines) |-> PropagateCall(f.lines[i], f.tracking_info)]
PropagateCalls(f) == <<PropagateCall(f.lines[Len(f.lines)], f.tracking_info)>>

\* One pass through the body of the loop: the propagator is handed the last
\* line of the batch and answers one position and one flag per row it was
\* given; then the test of is_direction_valid is evaluated
_propagate_lines_body ==
    /\ tpc = "body"
    /\ LET handed == frame.lines[Len(frame.lines)]
       IN  /\ calls' = calls \o PropagateCalls(frame)
           /\ \E pos \in [1..Len(handed) -> Positions],
                 valid \in [1..Len(handed) -> BOOLEAN] :
                frame' = [names |-> frame.names \cup {"n_new_pos", "new_tracking_info",
                                                      "are_direction_valid"},
                          n_seeds |-> frame.n_seeds,
                          lines |-> frame.lines,
                          tracking_info |-> frame.tracking_info,
                          invalid_direction_counts |-> frame.invalid_direction_counts,
                          propagation_can_continue |-> frame.propagation_can_continue,
                          final_lines |-> frame.final_lines,
                          nb_points |-> frame.nb_points + 1,
                          n_new_pos |-> pos,
                          new_tracking_info |-> frame.tracking_info + 1,
                          are_direction_valid |-> valid]
    /\ IF Bound("is_direction_valid", frame'.names)
       THEN /\ tpc' = "line152"
            /\ UNCHANGED outcome
       ELSE /\ tpc' = "raised"
            /\ outcome' = RaisedBy("NameError")
    /\ UNCHANGED <<ivars, ctor, tracker, data, wpc>>

\* if (final_pos is not None and not np.array_equal(final_pos, line[-1])
\*     and self.mask.is_voxmm_in_bound(*final_pos, origin=self.origin))
FinalPointAdded(final_pos, last, mask) ==
    final_pos # None /\ final_pos # last /\ final_pos \in mask

\* The statements after the loop: line[-1] is evaluated, then
\* finalize_streamline is called and its answer is added or not
_propagate_lines_after ==
    /\ tpc = "after"
    /\ IF Bound("line", frame.names)
       THEN \E final_pos \in Positions \cup {None} :
               LET line == frame.line
                   last == line[Len(line)]
               IN  /\ calls' = Append(calls, [proc |-> 0, op |-> "finalize_streamline",
                                               arg |-> <<last>>,
                                               info |-> frame.tracking_info])
                   /\ frame' = ("final_pos" :> final_pos) @@
                                [frame EXCEPT
                                    !.names = @ \cup {"final_pos"},
                                    !.line = IF FinalPointAdded(final_pos, last, tracker.mask)
                                             THEN Append(line, final_pos) ELSE line]
                   /\ tpc' = "line119"
                   /\ UNCHANGED outcome
       ELSE /\ tpc' = "raised"
            /\ outcome' = RaisedBy("NameError")
            /\ UNCHANGED <<frame, calls>>
    /\ UNCHANGED <<ivars, ctor, tracker, data, wpc>>

-----------------------------------------------------------------------------
(* The state machine of the tracker: the arguments exist, the tracker is   *)
(* built, track() is called once.                                          *)

\* The batches of seeds the seed generator may hand out, and the masks
SeedBatches == UNION {[1..n -> Positions] : n \in 0..MaxSeeds}
Masks == {0..m : m \in 0..MaxPos}

\* The interpolation functions are not exercised while the tracker runs
InterpolationIdle ==
    /\ pc = "idle"
    /\ volume = <<>>
    /\ coords = <<>>
    /\ vdev = "cpu"
    /\ cdev = "cpu"
    /\ mode = "none"
    /\ reads = <<>>
    /\ ret = NoOutcome

\* The arguments as the caller built them, before DWIMLTracker(...)
StartTracker(a) ==
    /\ ctor = a
    /\ tpc = "new"
    /\ tracker = NoTracker
    /\ frame = NoFrame
    /\ calls = <<>>
    /\ data = [main |-> "loaded", worker |-> <<>>]
    /\ wpc = <<>>
    /\ outcome = NoOutcome
    /\ InterpolationIdle

\* One process, simultaneous tracking, any batch of seeds and any limits
InitSimultaneous ==
    \E fwd \in BOOLEAN, minp \in 1..2, maxp \in 0..MaxPts, inv \in 0..1,
       seeds \in SeedBatches, mask \in Masks :
        StartTracker([nbr_processes |-> 1, is_lazy |-> FALSE,
                      simultanenous_tracking |-> TRUE, track_forward_only |-> fwd,
                      min_nbr_pts |-> minp, max_nbr_pts |-> maxp,
                      max_invalid_dirs |-> inv, seeds |-> seeds, mask |-> mask,
                      device |-> "cuda"])

\* Any number of processes on lazy or loaded data, in either mode
InitProcesses ==
    \E n \in 1..MaxProc, lazy \in BOOLEAN, sim \in BOOLEAN :
        StartTracker([nbr_processes |-> n, is_lazy |-> lazy,
                      simultanenous_tracking |-> sim, track_forward_only |-> FALSE,
                      min_nbr_pts |-> 1, max_nbr_pts |-> MaxPts,
                      max_invalid_dirs |-> 1, seeds |-> <<0>>, mask |-> Positions,
                      device |-> "cpu"])

TrackInit == InitSimultaneous \/ InitProcesses

TrackNext ==
    \/ DWIMLTracker_init
    \/ track
    \/ _prepare_multiprocessing_pool
    \/ \E w \in DOMAIN wpc : _reload_data_for_new_process(w)
    \/ \E w \in DOMAIN wpc : _get_streamlines_sub(w)
    \/ pool_map_returns
    \/ _get_streamlines
    \/ simultanenous_tracking_on_gpu
    \/ _get_lines_both_directions
    \/ _propagate_lines_while
    \/ _propagate_lines_body
    \/ _propagate_lines_after

SpecTrack == TrackInit /\ [][TrackNext]_vars

-----------------------------------------------------------------------------
(* Vocabulary of the properties of the tracker.                            *)

\* self._propagate_lines(lines, tracking_info) has been called; the call is
\* over, by a return to line 119 or by an exception; it has returned
PassEntered == tpc \in {"while", "body", "after", "line152", "line119", "raised"}
PassOver == tpc \in {"line119", "raised"}
PassReturned == tpc = "line119"

\* The number of calls of one operation so far, and where they are in calls
CallsOf(op) == {i \in DOMAIN calls : calls[i].op = op}
NbCalls(op) == Cardinality(CallsOf(op))

\* C11: once _propagate_lines is called it makes at most max_nbr_pts passes
\* through its loop, and when the call is over it has called
\* finalize_streamline once and has returned
C11_PassEndsWithFinalStep ==
    PassEntered =>
        /\ frame.nb_points <= tracker.max_nbr_pts
        /\ PassOver => PassReturned /\ NbCalls("finalize_streamline") = 1

\* The propagator has answered at least once in this pass; the streamline
\* whose points it was handed (the last of the batch), and row 1 of its
\* last answer
Proposed == PassEntered /\ "n_new_pos" \in frame.names
Handed == frame.lines[Len(frame.lines)]
Tail1(line) == line[Len(line)]
NewPos == frame.n_new_pos[1]
DirectionValid == frame.are_direction_valid[1]

\* The stub of the fixed unit direction: the proposed position is one step
\* after the position it was handed, and every direction is valid
FixedDirectionStub == Proposed => NewPos = Tail1(Handed) + 1 /\ DirectionValid
OneStepApart(line) == \A k \in 1..(Len(line) - 1) : line[k + 1] = line[k] + 1

\* C12: with the fixed-direction stub and a mask that holds every position,
\* after N passes through the loop the streamline has min(N+1, max_nbr_pts)
\* points, each one step after the one before
C12_FixedDirectionLength ==
    (PassOver /\ FixedDirectionStub /\ tracker.mask = Positions
        /\ tracker.max_nbr_pts >= 1 /\ frame.lines # <<>>) =>
        /\ Len(Handed) = Min(frame.nb_points + 1, tracker.max_nbr_pts)
        /\ OneStepApart(Handed)

\* The streamline handed to the propagator as the step left it: whether it
\* is still in the active set, whether the proposed position is its new
\* last point, and the three stopping criteria
StillActive == frame.propagation_can_continue[Len(frame.lines)] # 0
NewPosAppended == Len(Handed) >= 2 /\ Tail1(Handed) = NewPos
TooManyInvalid ==
    frame.invalid_direction_counts[Len(frame.lines)] > tracker.max_invalid_dirs
TooLong == Len(Handed) >= tracker.max_nbr_pts
OutOfMask == NewPos \notin tracker.mask
StoppingCriterion == TooManyInvalid \/ TooLong \/ OutOfMask

\* C13: after a step the streamline is out of the active set exactly when a
\* stopping criterion holds for it, and a streamline that stays active has
\* the proposed position as its new last point
C13_ActiveIffNoCriterion ==
    Proposed =>
        /\ StillActive <=> ~StoppingCriterion
        /\ StillActive => NewPosAppended

\* track() is over on the simultaneous path, and the streamlines that the
\* path has handed back (none when it ended on an exception)
SimultaneousOver ==
    tracker.built /\ tracker.simultanenous_tracking /\ tpc \in {"raised", "returned"}
ReturnedLines == IF outcome.kind = "returned" THEN outcome.value ELSE <<>>
WithinLimits(line) == tracker.min_nbr_pts <= Len(line) /\ Len(line) <= tracker.max_nbr_pts
IsReturned(line) == \E k \in DOMAIN ReturnedLines : ReturnedLines[k] = line

\* C14: every streamline handed back has between min_nbr_pts and
\* max_nbr_pts points, and every streamline of the batch whose length is
\* within these limits is handed back with all its points
C14_KeptWithinLimits ==
    SimultaneousOver =>
        /\ \A k \in DOMAIN ReturnedLines : WithinLimits(ReturnedLines[k])
        /\ \A i \in DOMAIN frame.lines :
               WithinLimits(frame.lines[i]) => IsReturned(frame.lines[i])

\* C15: when the first position proposed is outside the mask and
\* min_nbr_pts = 2, that position is not appended, the streamline is left
\* with its seed only, and the path ends by handing back results that do not
\* hold this streamline
C15_OutOfMaskSeedDiscarded ==
    (SimultaneousOver /\ Proposed /\ frame.nb_points = 1 /\ OutOfMask
        /\ tracker.min_nbr_pts = 2) =>
        /\ ~NewPosAppended
        /\ Handed = <<frame.n_seeds[Len(frame.n_seeds)]>>
        /\ outcome.kind = "returned"
        /\ ~IsReturned(Handed)

\* The points of a streamline, and the ways of matching the streamlines
\* handed back to the seeds they grew from, in increasing order of seed
Points(line) == {line[k] : k \in DOMAIN line}
OrderedMatchings ==
    {f \in [DOMAIN ReturnedLines -> DOMAIN frame.n_seeds] :
        \A j, k \in DOMAIN ReturnedLines : j < k => f[j] < f[k]}

\* C16: the simultaneous path ends by handing back streamlines in the order
\* of their seeds, each of them holding its own seed
C16_SeedOrderPreserved ==
    SimultaneousOver =>
        /\ outcome.kind = "returned"
        /\ \E f \in OrderedMatchings :
               \A k \in DOMAIN ReturnedLines :
                   frame.n_seeds[f[k]] \in Points(ReturnedLines[k])

\* The counter of consecutive invalid directions of streamline i
InvalidCount(i) == frame.invalid_direction_counts[i]
NoError == outcome.kind \in {"none", "returned"}

\* C17: after the first step, the counter of the streamline that was handed
\* over is 0 if its direction was valid and 1 if it was not, the counters of
\* the other streamlines are untouched, the streamline stays active while
\* its counter does not exceed max_invalid_dirs, and the run has not ended
\* on an error
C17_InvalidDirectionLocal ==
    (Proposed /\ frame.nb_points = 1) =>
        /\ InvalidCount(Len(frame.lines)) = IF DirectionValid THEN 0 ELSE 1
        /\ \A i \in 1..(Len(frame.lines) - 1) : InvalidCount(i) = 0
        /\ (~TooManyInvalid /\ ~TooLong /\ ~OutOfMask) => StillActive
        /\ NoError

\* The arguments ask for more than 2 processes on data that is not lazy
TooManyProcessesForData ==
    tpc # "idle" /\ ctor.nbr_processes > 2 /\ ~ctor.is_lazy

\* C18: with nbr_processes > 2 and a dataset that is not lazy the
\* constructor ends on ValueError and leaves no tracker; move_to is never
\* called, no pool is created and no worker exists, at any time
C18_NotLazyMultiprocessingFatal ==
    TooManyProcessesForData =>
        /\ tpc \in {"new", "init_raised"}
        /\ tpc = "init_raised" => outcome.kind = "ValueError"
        /\ tracker = NoTracker
        /\ NbCalls("move_to") = 0
        /\ NbCalls("Pool") = 0
        /\ wpc = <<>>

C18_Witness == TooManyProcessesForData /\ tpc = "init_raised"

\* Call i is preceded by a call of op made by process proc
Preceded(i, proc, op) ==
    \E j \in 1..(i - 1) : calls[j].proc = proc /\ calls[j].op = op

C20_FinalPointRule ==
    PassOver =>
        /\ NbCalls("finalize_streamline") = 1
        /\ \A i \in CallsOf("propagate"), j \in CallsOf("finalize_streamline") : i < j
        /\ "final_pos" \in frame.names
        /\ LET before == Handed
               added == /\ frame.final_pos # None
                        /\ frame.final_pos # Tail1(before)
                        /\ frame.final_pos \in tracker.mask
           IN  frame.line = IF added THEN Append(before, frame.final_pos) ELSE before

\* The points of a line in reverse order
Reversed(line) == [k \in 1..Len(line) |-> line[Len(line) + 1 - k]]

\* C21: when track() is over on the simultaneous path, prepare_backward has
\* been called once, after every propagate call of the forward pass and
\* with the forward lines reversed, and the backward pass has ended without
\* an error, if track_forward_only is false; it has not been called if
\* track_forward_only is true
C21_BackwardPass ==
    SimultaneousOver =>
        IF tracker.track_forward_only
        THEN NbCalls("prepare_backward") = 0
        ELSE /\ NbCalls("prepare_backward") = 1
             /\ \A j \in CallsOf("prepare_backward") :
                    /\ \E i \in CallsOf("propagate") : i < j
                    /\ \A i \in DOMAIN calls[j].arg :
                           calls[j].arg[i] = Reversed(frame.lines[i])
             /\ NoError

ActiveLines == {i \in DOMAIN frame.lines : frame.propagation_can_continue[i] # 0}
LastBatch == calls[Len(calls)].arg

\* C23: at the first step of a pass, when every streamline is active and
\* holds its seed only, the batch handed to propagate is the sequence of the
\* seeds, one position per active streamline
C23_BatchIsActiveTails ==
    (Proposed /\ frame.nb_points = 1) =>
        /\ Len(LastBatch) = Cardinality(ActiveLines)
        /\ LastBatch = [i \in 1..Len(frame.lines) |-> Tail1(frame.lines[i])]

\* What one pass through the body of the loop does to streamline i: nothing
\* if it had left the active set; a new point if it is active before and
\* after
StepLeavesAlone(i) ==
    /\ frame'.lines[i] = frame.lines[i]
    /\ frame'.invalid_direction_counts[i] = frame.invalid_direction_counts[i]
    /\ frame'.propagation_can_continue[i] = 0
StepExtends(i) ==
    frame'.propagation_can_continue[i] # 0 =>
        Len(frame'.lines[i]) = Len(frame.lines[i]) + 1

\* C24: a step of the loop leaves alone every streamline that has left the
\* active set, and gives a new point to every streamline that stays active
C24_TerminatedUntouched ==
    [][tpc = "body" =>
          \A i \in DOMAIN frame.lines :
              IF frame.propagation_can_continue[i] = 0
              THEN StepLeavesAlone(i) ELSE StepExtends(i)]_vars

\* The live flag of streamline i, and whether the step being taken proposes
\* a position outside the mask for the streamline handed to the propagator
Live(i) == frame.propagation_can_continue[i] # 0
StepLeavesMask == tpc = "body" /\ frame'.n_new_pos[1] \notin tracker.mask

\* C25: in a pass a live flag that is false stays false, and the flag of a
\* streamline is false after the step at which its proposed position is
\* outside the mask
C25_LiveFlagMonotone ==
    [][PassEntered =>
          /\ \A i \in DOMAIN frame.lines :
                 ~Live(i) => frame'.propagation_can_continue[i] = 0
          /\ StepLeavesMask =>
                 frame'.propagation_can_continue[Len(frame.lines)] = 0]_vars

\* The loop of the pass is over: the pass is neither at the test of the
\* loop nor in its body
LoopOver == PassEntered /\ tpc \notin {"while", "body"}

\* C26: the step counter never exceeds max_nbr_pts, and once the loop is
\* over either no streamline is active or the counter equals max_nbr_pts
C26_LoopRunsWhileAnyActive ==
    PassEntered =>
        /\ frame.nb_points <= tracker.max_nbr_pts
        /\ LoopOver => ActiveLines = {} \/ frame.nb_points = tracker.max_nbr_pts

\* The tracking_info structures are numbered: prepare_forward answers
\* number 0 and a propagate call that is handed number n answers number
\* n + 1.  The number of propagate calls made before call i
PropagateCallsBefore(i) == Cardinality({j \in CallsOf("propagate") : j < i})

\* C27: every propagate call of a pass is handed the tracking_info answered
\* by the call before it (prepare_forward for the first), and when the pass
\* is over finalize_streamline has been handed the one answered by the last
\* propagate call
C27_TrackingInfoThreaded ==
    PassEntered =>
        /\ \A i \in CallsOf("propagate") : calls[i].info = PropagateCallsBefore(i)
        /\ PassOver =>
               \E j \in CallsOf("finalize_streamline") :
                   calls[j].info = NbCalls("propagate")

\* No line of the batch holds more than max_nbr_pts points
NoLineTooLong == \A i \in DOMAIN frame.lines : Len(frame.lines[i]) <= tracker.max_nbr_pts

TrackOver == tracker.built /\ tpc \in {"raised", "returned"}
KeptLines == SelectSeq(frame.lines, WithinLimits)

\* C29: track() ends by returning a result in both modes, and on the
\* simultaneous path the result is the sequence of the lines kept
C29_TrackReturnsResult ==
    TrackOver =>
        /\ outcome.kind = "returned"
        /\ tracker.simultanenous_tracking => outcome.value = KeptLines

-----------------------------------------------------------------------------
\* The values of channel ch at the 8 clamped corners of coordinate c
CornerValues(vol, c, ch) ==
    {Voxel(vol, Clamp(c[1] \div Den + i, 0, vol.shape[1] - 1),
                Clamp(c[2] \div Den + j, 0, vol.shape[2] - 1),
                Clamp(c[3] \div Den + k, 0, vol.shape[3] - 1), ch) :
        i \in {0, 1}, j \in {0, 1}, k \in {0, 1}}
Least(S) == CHOOSE x \in S : \A y \in S : x <= y
Greatest(S) == CHOOSE x \in S : \A y \in S : x >= y

\* C30: on a valid call each fractional offset is in [0, 1), each of the 8
\* corner weights of each coordinate is in [0, 1], and each returned value
\* is between the least and the greatest of the 8 clamped corner values of
\* its channel, wherever the coordinate lies
C30_WeightsInUnitInterval ==
    TorchValid =>
        \A n \in 1..Len(coords) :
            /\ \A a \in 1..3 :
                   0 <= FracPart(coords)[n][a] /\ FracPart(coords)[n][a] < Den
            /\ \A k \in 1..8 :
                   0 <= WeightsOf(coords, n)[k] /\ WeightsOf(coords, n)[k] <= Scale
            /\ ret.kind = "value"
            /\ \A ch \in 1..NbChannels(volume) :
                   /\ Scale * Least(CornerValues(volume, coords[n], ch))
                          <= ResultAt(ret.value, volume, n, ch)
                   /\ ResultAt(ret.value, volume, n, ch)
                          <= Scale * Greatest(CornerValues(volume, coords[n], ch))

\* A coordinate below 0 on one axis, with a fractional offset on every axis,
\* whose value lies strictly between two different corner values
C30_Witness ==
    /\ TorchValid /\ ret.kind = "value"
    /\ \E a \in 1..3 : coords[1][a] < 0
    /\ \A a \in 1..3 : coords[1][a] % Den # 0
    /\ \E k \in 1..8 : 0 < WeightsOf(coords, 1)[k] /\ WeightsOf(coords, 1)[k] < Scale
    /\ Scale * Least(CornerValues(volume, coords[1], 1)) < ResultAt(ret.value, volume, 1, 1)
    /\ ResultAt(ret.value, volume, 1, 1) < Scale * Greatest(CornerValues(volume, coords[1], 1))

====
